---- MODULE Spec2Model ----
(***************************************************************************)
(* State-machine model of the orchestration engine of                      *)
(* src/modules/api-orchestrator/orchestrator.py: ClaudeOrchestrator's      *)
(* session loop (run_orchestrated_session), the oracle call                *)
(* (send_to_claude_api), the task executor (execute_claude_code_task),     *)
(* the summary writer (save_session_summary) and main's exception          *)
(* handlers.                                                               *)
(***************************************************************************)
EXTENDS Integers, Sequences, FiniteSets, TLC

VARIABLES
    pc,                    \* position of the single thread of control
    iteration,             \* run_orchestrated_session's local `iteration`
    response,              \* run_orchestrated_session's local `response`
    task_results,          \* run_orchestrated_session's local `task_results`
    conversation_history,  \* self.conversation_history
    current_model,         \* self.current_model
    sent,                  \* the message the loop is handing to send_to_claude_api
    in_flight,             \* which oracle request is being waited on
    api_calls,             \* number of calls of send_to_claude_api so far
    executed,              \* indices of the tasks handed to the executor in this pass
    running,               \* the task whose subprocess is being waited on (0: none)
    choice,                \* the operator's last checkpoint input
    prompted,              \* the checkpoint menu was shown for the current response
    ended_by,              \* how the loop / the process ended
    cwd_files,             \* files created in the working directory
    summary,               \* the persisted session summary record
    initial_input,         \* run_orchestrated_session's parameter `initial_input`
    last_reply,            \* what the oracle did with the request that gave `response`
    warned,                \* the "Max iterations reached" warning was logged
    response_text,         \* send_to_claude_api's local `response_text`
    parsed,                \* what send_to_claude_api made of response_text
    model_choice,          \* select_model's local `choice`
    delayed,               \* time.sleep(1) ran after the last oracle call
    exec_task,             \* execute_claude_code_task's parameter `task`
    exec_env,              \* what the file system and the subprocess do in that call
    exec_result            \* what that call returns or raises

\* the variables of the session loop
loop_vars == <<pc, iteration, response, task_results, conversation_history,
               current_model, sent, in_flight, api_calls, executed, running,
               choice, prompted, ended_by, cwd_files, summary, initial_input,
               last_reply, warned, model_choice, delayed>>

\* the variables of the reply parser
parse_vars == <<response_text, parsed>>

\* the variables of one call of the task executor
exec_vars == <<exec_task, exec_env, exec_result>>

vars == <<pc, iteration, response, task_results, conversation_history,
          current_model, sent, in_flight, api_calls, executed, running, choice,
          prompted, ended_by, cwd_files, summary, initial_input, last_reply,
          warned, response_text, parsed, model_choice, delayed, exec_task,
          exec_env, exec_result>>

----------------------------------------------------------------------------
(* Values *)

\* Python's None
None == "<None>"

\* a key that a dict does not have
Absent == "<absent>"

\* the hard-coded safety limit of the loop
max_iterations == 15

\* longest task list the oracle returns in the model
MaxTasks == 2

\* self.available_models
available_models ==
    [opus41 |-> "claude-opus-4-1-20250805",
     opus   |-> "claude-3-opus-20240229",
     sonnet |-> "claude-3-5-sonnet-20241022",
     haiku  |-> "claude-3-haiku-20240307"]

\* values of the "phase" key the oracle may send (Absent: no such key)
Phases == {"execution", "complete", "error", "bogus", Absent}

\* values of a task's "type" key (Absent: no such key)
TaskTypes == {"claude_code_prompt", "file_creation", "command", "bogus", Absent}

\* a task: its type, and whether it has a "content" key
Tasks ==
    {t \in [type : TaskTypes, has_content : BOOLEAN] :
        t.type \in {"bogus", Absent} => t.has_content}

\* the tasks the oracle puts into its plans: a prompt with and without
\* content, a file to create, a shell command, an unrecognized type and no
\* type at all
PlanTasks ==
    {t \in Tasks :
        \/ t.type \in {"claude_code_prompt", "bogus", Absent}
        \/ t.has_content}

\* task lists of at most MaxTasks tasks
TaskLists == UNION {[1..n -> PlanTasks] : n \in 0..MaxTasks}

\* the dicts json.loads can yield for a well-formed plan
Plans ==
    [phase : Phases, tasks : TaskLists, checkpoint : BOOLEAN, summary : {"ok"}]

\* the value of `response` before the first oracle call returns
NoResponse == [phase |-> Absent, tasks |-> <<>>, checkpoint |-> FALSE, summary |-> Absent]

\* the value of `summary` before save_session_summary has run
NoSummary == [saved |-> FALSE, conversation |-> <<>>]

----------------------------------------------------------------------------
(* The planning oracle: send_to_claude_api *)

\* what the remote service can do with one request: fail at the transport
\* level, answer with text that holds no JSON, or answer with a JSON plan
OracleReplies ==
    {[kind |-> "fail", text |-> "connection refused", plan |-> NoResponse]}
    \cup {[kind |-> "garbage", text |-> t, plan |-> NoResponse] : t \in {"", "sorry"}}
    \cup {[kind |-> "json", text |-> "json", plan |-> p] : p \in Plans}

\* the user message and the assistant message of oracle request number n
UserMessage(n) == [role |-> "user", content |-> n]

AssistantMessage(n) == [role |-> "assistant", content |-> n]

\* the fallback response for a text that cannot be parsed
FallbackResponse(text) ==
    [phase |-> "planning", tasks |-> <<>>,
     summary |-> IF Len(text) <= 200 THEN text ELSE SubSeq(text, 1, 200),
     checkpoint |-> TRUE]

\* a failed call reported like a reply that could not be parsed
ErrorResponse_PlanningPhase(text) ==
    [phase |-> "planning", tasks |-> <<>>,
     summary |-> "API error: " \o text, checkpoint |-> TRUE]

\* the response for a failed API call
ErrorResponse(text) ==
    [phase |-> "error", tasks |-> <<>>,
     summary |-> "API error: " \o text, checkpoint |-> TRUE]

\* the dict send_to_claude_api returns for request number n
send_to_claude_api(reply) ==
    CASE reply.kind = "fail"    -> ErrorResponse(reply.text)
      [] reply.kind = "garbage" -> FallbackResponse(reply.text)
      [] OTHER                  -> reply.plan

\* a history that is only updated once the reply has been parsed
HistoryAfter_OnlyParsed(history, n, reply) ==
    IF reply.kind # "json"
    THEN history
    ELSE history \o <<UserMessage(n), AssistantMessage(n)>>

\* a history that keeps only the latest exchange
HistoryAfter_LastExchangeOnly(history, n, reply) ==
    IF reply.kind = "fail"
    THEN history
    ELSE <<UserMessage(n), AssistantMessage(n)>>

\* a history that records the reply before the message it answers
HistoryAfter_ReplyFirst(history, n, reply) ==
    IF reply.kind = "fail"
    THEN history
    ELSE history \o <<AssistantMessage(n), UserMessage(n)>>

\* self.conversation_history after request number n got `reply`
HistoryAfter(history, n, reply) ==
    IF reply.kind = "fail"
    THEN history
    ELSE history \o <<UserMessage(n), AssistantMessage(n)>>

----------------------------------------------------------------------------
(* The task executor: execute_claude_code_task *)

\* what subprocess.run can do: return with an exit code, time out, or raise
ProcResults ==
    {[kind |-> "exit", returncode |-> 0, stdout |-> "out", stderr |-> ""],
     [kind |-> "exit", returncode |-> 1, stdout |-> "", stderr |-> ""],
     [kind |-> "timeout", returncode |-> 0, stdout |-> "", stderr |-> ""]}

\* subprocess.run has not returned
ProcPending == [kind |-> "pending", returncode |-> 0, stdout |-> "", stderr |-> ""]

\* the environment of one task execution: whether the audit write of the
\* prompt succeeds, whether the working directory can be written, and what
\* the launched process does
ExecEnvs == [audit_ok : BOOLEAN, fs_ok : BOOLEAN, proc : ProcResults \cup {ProcPending}]

\* the environments up to the point where a subprocess is launched
DispatchEnvs == {env \in ExecEnvs : env.proc = ProcPending}

\* the environments in which a launched subprocess comes back
ReturnEnvs == {env \in ExecEnvs : env.audit_ok /\ env.fs_ok /\ env.proc # ProcPending}

\* the first n characters of s: s[:n]
Truncate(s, n) == IF Len(s) <= n THEN s ELSE SubSeq(s, 1, n)

\* an exception that leaves execute_claude_code_task
Raised(what) ==
    [raised |-> TRUE, success |-> FALSE, output |-> "", error |-> what, created |-> {}]

\* a returned result dict
Returned(success, output, error, created) ==
    [raised |-> FALSE, success |-> success, output |-> output, error |-> error,
     created |-> created]

\* a result whose success follows the absence of error text, not the exit code
ProcOutcome_StderrDecides(proc, timeout_text) ==
    CASE proc.kind = "exit" ->
            Returned(proc.stderr = "", Truncate(proc.stdout, 1000),
                     IF proc.stderr # "" THEN Truncate(proc.stderr, 500) ELSE None, {})
      [] proc.kind = "timeout" -> Returned(FALSE, "", timeout_text, {})
      [] OTHER -> Returned(FALSE, "", "OSError", {})

\* the result dict built from a finished, timed out or failed subprocess.run
ProcOutcome(proc, timeout_text) ==
    CASE proc.kind = "exit" ->
            Returned(proc.returncode = 0, Truncate(proc.stdout, 1000),
                     IF proc.stderr # "" THEN Truncate(proc.stderr, 500) ELSE None, {})
      [] proc.kind = "timeout" -> Returned(FALSE, "", timeout_text, {})
      [] OTHER -> Returned(FALSE, "", "OSError", {})

\* task.get('type', 'unknown')
TaskType(task) == IF task.type = Absent THEN "unknown" ELSE task.type

\* an else branch that raises instead of returning a failure
UnknownTypeResult_Raises(task_type) == Raised("ValueError: " \o task_type)

\* the result of the else branch: a task type that is not recognized
UnknownTypeResult(task_type) ==
    Returned(FALSE, "", "Unknown task type: " \o task_type, {})

\* execute_claude_code_task(task) in environment env
execute_claude_code_task(task, env) ==
    CASE TaskType(task) = "claude_code_prompt" ->
            IF ~task.has_content THEN Raised("KeyError: 'content'")
            ELSE IF ~env.audit_ok THEN Raised("OSError")
            ELSE ProcOutcome(env.proc, "Command timed out after 2 minutes")
      [] TaskType(task) = "file_creation" ->
            IF ~task.has_content THEN Returned(FALSE, "", "'content'", {})
            ELSE IF ~env.fs_ok THEN Returned(FALSE, "", "OSError", {})
            ELSE Returned(TRUE, "Created file.txt", None, {"file.txt"})
      [] TaskType(task) = "command" ->
            IF ~task.has_content THEN Returned(FALSE, "", "'content'", {})
            ELSE ProcOutcome(env.proc, "Command timed out")
      [] OTHER -> UnknownTypeResult(TaskType(task))

\* whether executing the task gets as far as waiting on a subprocess
WaitsOnProcess(task, env) ==
    \/ TaskType(task) = "claude_code_prompt" /\ task.has_content /\ env.audit_ok
    \/ TaskType(task) = "command" /\ task.has_content

\* the entry the loop appends to task_results for a task and its result
ResultEntry(task, result) ==
    [type |-> IF task.type = Absent THEN None ELSE task.type,
     success |-> result.success,
     output |-> Truncate(result.output, 200),
     error |-> result.error]

----------------------------------------------------------------------------
(* The session loop: run_orchestrated_session *)

\* what main can pass as the initial task description (None: no argument)
InitialInputs == {None, "", "build a CLI tool"}

\* what capture_voice_input can return
CapturedInputs == {"", "build a CLI tool"}

\* a guard that only tests for a missing argument
NoInput_OnlyNone(input) == input = None

\* `if not initial_input`
NoInput(input) == input = None \/ input = ""

\* a summary that records the length of the conversation but not its messages
SavedSummary_LengthOnly(history) == [saved |-> TRUE, conversation |-> <<>>]

\* line 507 is reached after the feedback request of line 504; the
\* replacement requests of lines 466 and 478 are followed by `continue`
SleepsAfter(kind) == kind = "feedback"

\* the record save_session_summary writes
SavedSummary(history) == [saved |-> TRUE, conversation |-> history]

\* `if iteration >= max_iterations` after the loop
WarnsMaxIterations(i) == i >= max_iterations

\* what the operator can type at the checkpoint menu, after lower().strip()
Choices == {"c", "r", "m", "v", "o", "s", "x"}

\* what the operator can type at select_model's prompt
ModelChoices == {"2", "", "9"}

\* a selection that falls back to the default model on an invalid choice
select_model_ResetsOnInvalid(model, typed) ==
    CASE typed = "1" -> available_models.opus41
      [] typed = "2" -> available_models.opus
      [] typed = "3" -> available_models.sonnet
      [] typed = "4" -> available_models.haiku
      [] OTHER -> available_models.opus41

\* self.current_model after select_model read `typed`
select_model(model, typed) ==
    CASE typed = "1" -> available_models.opus41
      [] typed = "2" -> available_models.opus
      [] typed = "3" -> available_models.sonnet
      [] typed = "4" -> available_models.haiku
      [] OTHER -> model

\* a loop condition that is off by one
LoopCondition_OffByOne(i) == i <= max_iterations

\* the loop condition of `while iteration < max_iterations`
LoopCondition(i) == i < max_iterations

\* a loop that only checks for phase complete
PhaseEndsLoop_OnlyComplete(phase) == phase = "complete"

\* a phase check that only knows the error phase
PhaseEndsLoop_OnlyError(phase) == phase = "error"

\* the two phase checks that break out of the loop
PhaseEndsLoop(phase) == phase = "complete" \/ phase = "error"

\* a for loop that stops at the first failed task
TaskLeft_StopOnFailure(results, tasks) ==
    /\ Len(results) < Len(tasks)
    /\ \A i \in DOMAIN results : results[i].success

\* the for loop over response['tasks'] has a task left to execute
TaskLeft(results, tasks) == Len(results) < Len(tasks)

\* a loop that moves on once every task is launched, without waiting for
\* the last subprocess
TasksDone_NoWait ==
    /\ pc \in {"exec", "task_wait"}
    /\ ~TaskLeft(executed, response.tasks)

\* a for loop that can be left between any two tasks
TasksDone_AnyTime == pc = "exec"

\* a for loop that is never left
TasksDone_Never == FALSE

\* the for loop is over: every task was executed and its result recorded
TasksDone == pc = "exec" /\ ~TaskLeft(task_results, response.tasks)

\* a checkpoint that is skipped when the pass ran no task
AtCheckpoint_OnlyAfterTasks(resp) == resp.checkpoint /\ resp.tasks # <<>>

\* `if response.get('checkpoint')`
AtCheckpoint(resp) == resp.checkpoint

\* a menu whose modify entry falls through to the default feedback
ChoiceLeadsTo_ModifyIgnored(c) ==
    CASE c = "s" -> "stop"
      [] c = "v" -> "voice"
      [] OTHER -> "feedback"

\* where the if/elif chain on the operator's choice leads: out of the loop,
\* to a replacement message, or on to the default feedback
ChoiceLeadsTo(c) ==
    CASE c = "s" -> "stop"
      [] c = "m" -> "modify"
      [] c = "v" -> "voice"
      [] OTHER -> "feedback"

\* a numerator that counts every entry
Succeeded_CountsAll(results) == Len(results)

\* number of successful entries: sum(1 for t in task_results if t['success'])
Succeeded(results) == Cardinality({i \in DOMAIN results : results[i].success})

\* the message the loop builds: its kind (initial request, default feedback,
\* new instructions, new voice instructions), the phase it reports, the
\* success rate it reports and the number of results it lists
Message(kind, resp, results) ==
    [kind |-> kind,
     phase |-> IF kind = "feedback" THEN resp.phase ELSE Absent,
     succeeded |-> IF kind = "feedback" THEN Succeeded(results) ELSE 0,
     total |-> IF kind = "feedback" THEN Len(results) ELSE 0,
     listed |-> IF kind = "initial" THEN 0 ELSE Len(results)]

\* no message is being sent
NoMessage == [kind |-> "none", phase |-> Absent, succeeded |-> 0, total |-> 0, listed |-> 0]

\* a request that is issued a second time
SendRequest_Twice(kind) ==
    /\ pc' = "send"
    /\ api_calls' = api_calls + 2
    /\ sent' = Message(kind, response, task_results)
    /\ response' = NoResponse
    /\ task_results' = <<>>
    /\ executed' = <<>>
    /\ prompted' = FALSE
    /\ last_reply' = "none"

\* the loop builds a message of the given kind and calls send_to_claude_api
\* with it. The locals the run never reads again once the message is built
\* (response, task_results) are dropped here.
SendRequest(kind) ==
    /\ pc' = "send"
    /\ api_calls' = api_calls + 1
    /\ sent' = Message(kind, response, task_results)
    /\ response' = NoResponse
    /\ task_results' = <<>>
    /\ executed' = <<>>
    /\ prompted' = FALSE
    /\ last_reply' = "none"

\* run_orchestrated_session is left (by return or by an exception): its
\* locals response, task_results and choice are gone
DropLocals ==
    /\ response' = NoResponse
    /\ task_results' = <<>>
    /\ executed' = <<>>
    /\ running' = 0
    /\ choice' = ""
    /\ prompted' = FALSE
    /\ last_reply' = "none"

\* no call of the executor is being looked at
NoTask == [type |-> Absent, has_content |-> FALSE]

NoEnv == [audit_ok |-> TRUE, fs_ok |-> TRUE, proc |-> ProcPending]

NoResult == [raised |-> FALSE, success |-> FALSE, output |-> "", error |-> None,
             created |-> {}]

\* no reply text has been parsed
NotParsed == [kind |-> "none", keys |-> 0, summary |-> <<>>]

Init ==
    /\ pc = "start"
    /\ iteration = 0
    /\ response = NoResponse
    /\ task_results = <<>>
    /\ conversation_history = <<>>
    /\ current_model = available_models.opus41
    /\ sent = NoMessage
    /\ in_flight = "none"
    /\ api_calls = 0
    /\ executed = <<>>
    /\ running = 0
    /\ choice = ""
    /\ prompted = FALSE
    /\ ended_by = "none"
    /\ cwd_files = {}
    /\ summary = NoSummary
    /\ initial_input \in InitialInputs
    /\ last_reply = "none"
    /\ warned = FALSE
    /\ response_text = <<>>
    /\ parsed = NotParsed
    /\ model_choice = None
    /\ delayed = FALSE
    /\ exec_task = NoTask
    /\ exec_env = NoEnv
    /\ exec_result = NoResult

\* lines 374-375: without an argument the input is captured from the operator
CaptureInput ==
    /\ pc = "start"
    /\ initial_input = None
    /\ initial_input' \in CapturedInputs
    /\ UNCHANGED <<pc, iteration, response, task_results, conversation_history,
                   current_model, sent, in_flight, api_calls, executed, running,
                   choice, prompted, ended_by, cwd_files, summary, last_reply,
                   warned>>
    /\ UNCHANGED parse_vars
    /\ UNCHANGED <<model_choice, delayed>>
    /\ UNCHANGED exec_vars

\* lines 377-391: return if there is no input, else send the planning request
Start ==
    /\ pc = "start"
    /\ initial_input # None
    /\ IF NoInput(initial_input)
       THEN /\ pc' = "done"
            /\ ended_by' = "no_input"
            /\ UNCHANGED <<sent, api_calls, response, task_results, executed,
                           prompted, last_reply>>
       ELSE /\ SendRequest("initial")
            /\ UNCHANGED ended_by
    /\ UNCHANGED <<iteration, conversation_history, current_model, in_flight,
                   running, choice, cwd_files, summary, initial_input, warned>>
    /\ UNCHANGED parse_vars
    /\ UNCHANGED <<model_choice, delayed>>
    /\ UNCHANGED exec_vars

\* send_to_claude_api lines 173-219: the messages array is built and the
\* request goes out
CallApi ==
    /\ pc = "send"
    /\ pc' = "oracle_wait"
    /\ in_flight' = sent.kind
    /\ sent' = NoMessage
    /\ choice' = ""
    /\ UNCHANGED <<iteration, response, task_results, conversation_history,
                   current_model, api_calls, executed, running, prompted,
                   ended_by, cwd_files, summary, initial_input, last_reply,
                   warned>>
    /\ UNCHANGED parse_vars
    /\ model_choice' = None
    /\ UNCHANGED delayed
    /\ UNCHANGED exec_vars

\* send_to_claude_api lines 221-263: the call returns and the caller assigns
\* `response`; after a feedback request the loop sleeps, after a replacement
\* message it continues
OracleReturn ==
    /\ pc = "oracle_wait"
    /\ \E reply \in OracleReplies :
          /\ response' = send_to_claude_api(reply)
          /\ conversation_history' = HistoryAfter(conversation_history, api_calls, reply)
          /\ last_reply' = reply.kind
    /\ pc' = "loop_head"
    /\ in_flight' = "none"
    /\ UNCHANGED <<iteration, task_results, current_model, sent, api_calls,
                   executed, running, choice, prompted, ended_by, cwd_files,
                   summary, initial_input, warned>>
    /\ UNCHANGED parse_vars
    /\ delayed' = SleepsAfter(in_flight)
    /\ UNCHANGED model_choice
    /\ UNCHANGED exec_vars

\* lines 396-419: the loop condition, the increment, the two phase checks and
\* the reset of task_results
LoopPass ==
    /\ pc = "loop_head"
    /\ IF LoopCondition(iteration)
       THEN /\ iteration' = iteration + 1
            /\ IF PhaseEndsLoop(response.phase)
               THEN /\ pc' = "after_loop"
                    /\ ended_by' = response.phase
                    /\ UNCHANGED <<task_results, executed>>
               ELSE /\ pc' = "exec"
                    /\ task_results' = <<>>
                    /\ executed' = <<>>
                    /\ UNCHANGED ended_by
       ELSE /\ pc' = "after_loop"
            /\ ended_by' = "cap"
            /\ UNCHANGED <<iteration, task_results, executed>>
    /\ UNCHANGED <<response, conversation_history, current_model, sent,
                   in_flight, api_calls, running, choice, prompted, cwd_files,
                   summary, initial_input, last_reply, warned>>
    /\ UNCHANGED parse_vars
    /\ delayed' = FALSE
    /\ UNCHANGED model_choice
    /\ UNCHANGED exec_vars

\* lines 422-437, one pass of the for loop: hand the next task to the
\* executor; it waits on a subprocess, returns a result, or raises, and the
\* exception leaves run_orchestrated_session for main's handler (line 588)
ExecuteTask ==
    /\ pc = "exec"
    /\ TaskLeft(task_results, response.tasks)
    /\ LET i == Len(task_results) + 1
           task == response.tasks[i]
       IN  \E env \in DispatchEnvs :
              LET result == execute_claude_code_task(task, env) IN
              IF WaitsOnProcess(task, env)
              THEN /\ pc' = "task_wait"
                   /\ running' = i
                   /\ executed' = Append(executed, i)
                   /\ UNCHANGED <<response, task_results, choice, prompted,
                                  cwd_files, ended_by, last_reply>>
              ELSE IF result.raised
              THEN /\ pc' = "fatal"
                   /\ ended_by' = "task_exception"
                   /\ DropLocals
                   /\ UNCHANGED cwd_files
              ELSE /\ task_results' = Append(task_results, ResultEntry(task, result))
                   /\ executed' = Append(executed, i)
                   /\ cwd_files' = cwd_files \cup result.created
                   /\ UNCHANGED <<pc, response, running, choice, prompted, ended_by,
                                  last_reply>>
    /\ UNCHANGED <<iteration, conversation_history, current_model, sent,
                   in_flight, api_calls, summary, initial_input, warned>>
    /\ UNCHANGED parse_vars
    /\ UNCHANGED <<model_choice, delayed>>
    /\ UNCHANGED exec_vars

\* subprocess.run comes back (lines 279-304, 330-354) and the loop records
\* the result
TaskReturn ==
    /\ pc = "task_wait"
    /\ LET task == response.tasks[running] IN
       \E env \in ReturnEnvs :
          LET result == execute_claude_code_task(task, env)
          IN  task_results' = Append(task_results, ResultEntry(task, result))
    /\ pc' = "exec"
    /\ running' = 0
    /\ UNCHANGED <<iteration, response, conversation_history, current_model,
                   sent, in_flight, api_calls, executed, choice, prompted,
                   ended_by, cwd_files, summary, initial_input, last_reply,
                   warned>>
    /\ UNCHANGED parse_vars
    /\ UNCHANGED <<model_choice, delayed>>
    /\ UNCHANGED exec_vars

\* lines 439-451 and 487-504 for a response without checkpoint: after the
\* last task either show the menu or send the default feedback
EndTasks ==
    /\ TasksDone
    /\ IF AtCheckpoint(response)
       THEN /\ pc' = "checkpoint"
            /\ prompted' = TRUE
            /\ UNCHANGED <<sent, api_calls, response, task_results, executed,
                           last_reply>>
       ELSE SendRequest("feedback")
    /\ UNCHANGED <<iteration, conversation_history, current_model, in_flight,
                   running, choice, ended_by, cwd_files, summary, initial_input,
                   warned>>
    /\ UNCHANGED parse_vars
    /\ UNCHANGED <<model_choice, delayed>>
    /\ UNCHANGED exec_vars

\* lines 452-504: read the operator's choice and act on it
Checkpoint ==
    /\ pc = "checkpoint"
    /\ \E c \in Choices :
          /\ choice' = c
          /\ CASE ChoiceLeadsTo(c) = "stop" ->
                    /\ pc' = "after_loop"
                    /\ ended_by' = "stop"
                    /\ UNCHANGED <<sent, api_calls, response, task_results,
                                   executed, prompted, current_model, last_reply,
                                   model_choice>>
               [] ChoiceLeadsTo(c) \in {"modify", "voice"} ->
                    /\ SendRequest(ChoiceLeadsTo(c))
                    /\ UNCHANGED <<ended_by, current_model, model_choice>>
               [] OTHER ->
                    /\ IF c = "o"
                       THEN \E typed \in ModelChoices :
                               /\ model_choice' = typed
                               /\ current_model' = select_model(current_model, typed)
                       ELSE UNCHANGED <<current_model, model_choice>>
                    /\ SendRequest("feedback")
                    /\ UNCHANGED ended_by
    /\ UNCHANGED <<iteration, conversation_history, in_flight, running,
                   cwd_files, summary, initial_input, warned>>
    /\ UNCHANGED parse_vars
    /\ UNCHANGED delayed
    /\ UNCHANGED exec_vars

\* lines 509-535: the loop is over; save_session_summary writes the record
AfterLoop ==
    /\ pc = "after_loop"
    /\ warned' = WarnsMaxIterations(iteration)
    /\ summary' = SavedSummary(conversation_history)
    /\ pc' = "done"
    /\ DropLocals
    /\ UNCHANGED <<iteration, conversation_history, current_model, sent,
                   in_flight, api_calls, ended_by, cwd_files, initial_input>>
    /\ UNCHANGED parse_vars
    /\ UNCHANGED <<model_choice, delayed>>
    /\ UNCHANGED exec_vars

\* Ctrl-C while the loop waits on the oracle, on a subprocess or on the
\* operator: KeyboardInterrupt reaches main's handler, which exits
Interrupt ==
    /\ pc \in {"oracle_wait", "task_wait", "checkpoint"}
    /\ pc' = "interrupted"
    /\ ended_by' = "interrupt"
    /\ DropLocals
    /\ UNCHANGED <<iteration, conversation_history, current_model, sent,
                   in_flight, api_calls, cwd_files, summary, initial_input,
                   warned>>
    /\ UNCHANGED parse_vars
    /\ UNCHANGED <<model_choice, delayed>>
    /\ UNCHANGED exec_vars

Next ==
    \/ CaptureInput
    \/ Start
    \/ CallApi
    \/ OracleReturn
    \/ LoopPass
    \/ ExecuteTask
    \/ TaskReturn
    \/ EndTasks
    \/ Checkpoint
    \/ AfterLoop
    \/ Interrupt

Spec == Init /\ [][Next]_vars

\* the steps of a session in which every oracle call, task execution and
\* operator prompt comes back: no interrupt cuts a wait short
ReturningNext ==
    \/ CaptureInput
    \/ Start
    \/ CallApi
    \/ OracleReturn
    \/ LoopPass
    \/ ExecuteTask
    \/ TaskReturn
    \/ EndTasks
    \/ Checkpoint
    \/ AfterLoop

\* run_orchestrated_session is one sequential thread: between two waits it
\* runs straight-line code, and each wait (API call, subprocess with its
\* timeout, input()) ends when what it waits for returns, so an enabled step
\* is eventually taken
FairSpec == Init /\ [][ReturningNext]_vars /\ WF_vars(ReturningNext)

----------------------------------------------------------------------------
(* The reply parser: lines 221-254 of send_to_claude_api *)

\* the longest reply text that is enumerated
MaxTextLen == 4

\* the characters of a reply text: braces, "k" for one key/value pair with a
\* scalar value, "w" for any other character, " " for whitespace
Chars == {"{", "}", "k", "w", " "}

\* the reply texts of at most n characters
TextsUpTo(n) == UNION {[1..m -> Chars] : m \in 0..n}

\* the text without its whitespace
RECURSIVE NoSpaces(_)
NoSpaces(text) ==
    IF text = <<>>
    THEN <<>>
    ELSE IF Head(text) = " "
         THEN NoSpaces(Tail(text))
         ELSE <<Head(text)>> \o NoSpaces(Tail(text))

\* json.loads(text) returns a dict: the text is one object of key/value pairs,
\* whitespace allowed around every token
json_loads_ok(text) ==
    LET t == NoSpaces(text)
    IN  /\ Len(t) >= 2
        /\ t[1] = "{"
        /\ t[Len(t)] = "}"
        /\ \A i \in 2..(Len(t) - 1) : t[i] = "k"

\* the number of keys of the dict json.loads(text) returns
Keys(text) == Cardinality({i \in 1..Len(text) : text[i] = "k"})

\* an extraction that stops at the first closing brace
re_search_Lazy(text) ==
    LET opens  == {i \in 1..Len(text) : text[i] = "{"}
        first  == CHOOSE i \in opens : \A j \in opens : i <= j
        closes == {i \in 1..Len(text) : text[i] = "}" /\ i > first}
        close  == CHOOSE i \in closes : \A j \in closes : i <= j
    IN  IF opens = {} THEN <<>>
        ELSE IF closes = {} THEN <<>>
        ELSE SubSeq(text, first, close)

\* re.search(r'\{.*\}', text, re.DOTALL).group(): from the first opening
\* brace to the last closing brace after it; <<>> when there is no match
re_search(text) ==
    LET opens  == {i \in 1..Len(text) : text[i] = "{"}
        first  == CHOOSE i \in opens : \A j \in opens : i <= j
        closes == {i \in 1..Len(text) : text[i] = "}" /\ i > first}
        last   == CHOOSE i \in closes : \A j \in closes : i >= j
    IN  IF opens = {} THEN <<>>
        ELSE IF closes = {} THEN <<>>
        ELSE SubSeq(text, first, last)

\* the first n characters of a text
Excerpt(text, n) == IF Len(text) <= n THEN text ELSE SubSeq(text, 1, n)

\* lines 231-254: parse the text, else parse what the pattern extracts, else
\* fall back to an excerpt of the text
ParseResponse(text) ==
    IF json_loads_ok(text)
    THEN [kind |-> "parsed", keys |-> Keys(text), summary |-> <<>>]
    ELSE IF re_search(text) # <<>> /\ json_loads_ok(re_search(text))
         THEN [kind |-> "parsed", keys |-> Keys(re_search(text)), summary |-> <<>>]
         ELSE [kind |-> "fallback", keys |-> 0, summary |-> Excerpt(text, 200)]

\* the API call of line 186 has returned a reply text
ParseInit ==
    /\ pc = "parse"
    /\ iteration = 0
    /\ response = NoResponse
    /\ task_results = <<>>
    /\ conversation_history = <<>>
    /\ current_model = available_models.opus41
    /\ sent = NoMessage
    /\ in_flight = "initial"
    /\ api_calls = 1
    /\ executed = <<>>
    /\ running = 0
    /\ choice = ""
    /\ prompted = FALSE
    /\ ended_by = "none"
    /\ cwd_files = {}
    /\ summary = NoSummary
    /\ initial_input = "build a CLI tool"
    /\ last_reply = "none"
    /\ warned = FALSE
    /\ response_text \in TextsUpTo(MaxTextLen)
    /\ parsed = NotParsed
    /\ model_choice = None
    /\ delayed = FALSE
    /\ exec_task = NoTask
    /\ exec_env = NoEnv
    /\ exec_result = NoResult

\* lines 231-254
ParseReply ==
    /\ pc = "parse"
    /\ parsed' = ParseResponse(response_text)
    /\ pc' = "parsed"
    /\ UNCHANGED <<iteration, response, task_results, conversation_history,
                   current_model, sent, in_flight, api_calls, executed, running,
                   choice, prompted, ended_by, cwd_files, summary,
                   initial_input, last_reply, warned, response_text,
                   model_choice, delayed>>
    /\ UNCHANGED exec_vars

ParseNext == ParseReply

ParseSpec == ParseInit /\ [][ParseNext]_vars

----------------------------------------------------------------------------
(* One call of the task executor and the loop's use of its result:          *)
(* lines 265-361 and 423-437                                                *)

\* the length of the long texts that are enumerated
LongLen == 1001

\* the text made of n copies of the character c
RECURSIVE Repeat(_, _)
Repeat(c, n) ==
    IF n = 0
    THEN ""
    ELSE LET half == Repeat(c, n \div 2)
         IN  IF n % 2 = 0 THEN half \o half ELSE half \o half \o c

\* what subprocess.run can do in the call that is looked at: the results of
\* the session loop, a zero exit with text on stderr, long texts on both
\* streams, and an exception other than a timeout
ExecProcResults ==
    ProcResults
    \cup {[kind |-> "exit", returncode |-> 0, stdout |-> "out", stderr |-> "warning"],
          [kind |-> "exit", returncode |-> 1, stdout |-> "", stderr |-> "no such file"],
          [kind |-> "exit", returncode |-> 0, stdout |-> Repeat("o", LongLen),
            stderr |-> Repeat("e", LongLen)],
          [kind |-> "oserror", returncode |-> 0, stdout |-> "", stderr |-> ""]}

\* the tasks handed to the executor: those of the plans and one whose type
\* is a long text
ExecTasks == Tasks \cup {[type |-> Repeat("t", LongLen), has_content |-> TRUE]}

\* the loop is about to call execute_claude_code_task(task) (line 424)
ExecInit ==
    /\ pc = "call_executor"
    /\ iteration = 1
    /\ response = NoResponse
    /\ task_results = <<>>
    /\ conversation_history = <<>>
    /\ current_model = available_models.opus41
    /\ sent = NoMessage
    /\ in_flight = "none"
    /\ api_calls = 1
    /\ executed = <<>>
    /\ running = 0
    /\ choice = ""
    /\ prompted = FALSE
    /\ ended_by = "none"
    /\ cwd_files = {}
    /\ summary = NoSummary
    /\ initial_input = "build a CLI tool"
    /\ last_reply = "none"
    /\ warned = FALSE
    /\ response_text = <<>>
    /\ parsed = NotParsed
    /\ model_choice = None
    /\ delayed = FALSE
    /\ exec_task \in ExecTasks
    /\ exec_env \in [audit_ok : BOOLEAN, fs_ok : BOOLEAN, proc : ExecProcResults]
    /\ exec_result = NoResult

\* lines 265-361: the call returns a result dict or raises
ExecCall ==
    /\ pc = "call_executor"
    /\ exec_result' = execute_claude_code_task(exec_task, exec_env)
    /\ pc' = "executor_returned"
    /\ UNCHANGED <<iteration, response, task_results, conversation_history,
                   current_model, sent, in_flight, api_calls, executed, running,
                   choice, prompted, ended_by, cwd_files, summary,
                   initial_input, last_reply, warned, model_choice, delayed,
                   exec_task, exec_env>>
    /\ UNCHANGED parse_vars

\* lines 424-437: a returned dict is appended to task_results and the for
\* loop goes on; an exception leaves run_orchestrated_session
ExecRecord ==
    /\ pc = "executor_returned"
    /\ IF exec_result.raised
       THEN /\ pc' = "fatal"
            /\ ended_by' = "task_exception"
            /\ UNCHANGED <<task_results, cwd_files>>
       ELSE /\ pc' = "exec"
            /\ task_results' = Append(task_results, ResultEntry(exec_task, exec_result))
            /\ cwd_files' = cwd_files \cup exec_result.created
            /\ UNCHANGED ended_by
    /\ UNCHANGED <<iteration, response, conversation_history, current_model,
                   sent, in_flight, api_calls, executed, running, choice,
                   prompted, summary, initial_input, last_reply, warned,
                   model_choice, delayed>>
    /\ UNCHANGED parse_vars
    /\ UNCHANGED exec_vars

ExecNext ==
    \/ ExecCall
    \/ ExecRecord

ExecSpec == ExecInit /\ [][ExecNext]_vars

----------------------------------------------------------------------------
(* Properties *)

\* C1: once the oracle has returned a response whose phase is complete or
\* error (to the initial request, to default feedback or to a replacement
\* message), no step of the session builds or sends another oracle request.
C1_NoRequestAfterTerminalPhase ==
    [][(response.phase \in {"complete", "error"} \/ ended_by \in {"complete", "error"})
          => (api_calls' = api_calls /\ pc' \notin {"send", "oracle_wait"})]_vars

\* a session that ended on a terminal phase returned in a later pass
C1_Witness ==
    /\ pc = "after_loop"
    /\ ended_by = "error"
    /\ response.phase = "error"
    /\ iteration = 3
    /\ api_calls = 3

\* C2: the iteration counter starts at 0, grows by exactly 1 on every loop
\* pass and only there, the loop halts at the cap whatever the phase, and no
\* task is executed and no request is issued in a pass numbered above
\* max_iterations.
C2_IterationCounter ==
    /\ iteration = 0
    /\ [][/\ iteration' = IF pc = "loop_head" /\ pc' = "exec" THEN iteration + 1
                          ELSE IF pc = "loop_head" /\ ended_by' \in {"complete", "error"}
                          THEN iteration + 1
                          ELSE iteration
          /\ (pc = "loop_head" /\ iteration >= max_iterations) => pc' = "after_loop"
          /\ iteration' <= max_iterations
          /\ (api_calls' # api_calls \/ executed' # executed)
                => iteration' <= max_iterations]_vars

\* the cap ended a session whose last pass went through the modify path
C2_Witness ==
    /\ pc = "after_loop"
    /\ ended_by = "cap"
    /\ iteration = max_iterations
    /\ response.phase = "execution"

\* every task handed to the executor in this pass has its one result, in
\* the order of dispatch, and no subprocess is being waited on
OutcomesRecorded ==
    /\ running = 0
    /\ pc # "task_wait"
    /\ Len(task_results) = Len(executed)
    /\ \A i \in DOMAIN executed :
          /\ executed[i] = i
          /\ task_results[i].type = ResultEntry(response.tasks[i], Raised("")).type

\* C3: whenever the loop issues an oracle request (default feedback or a
\* replacement message), every task dispatched in the pass already has
\* exactly one recorded outcome and no task execution is outstanding.
C3_NoRequestWhileTaskOutstanding ==
    [][api_calls' # api_calls => OutcomesRecorded]_vars

\* a replacement message is being sent after a pass that ran two tasks,
\* neither of them a file creation
C3_Witness ==
    /\ pc = "send"
    /\ sent.kind = "modify"
    /\ sent.listed = 2
    /\ cwd_files = {}

\* the results of the pass: one entry per task of the plan, entry i for
\* task i, each task dispatched once and in plan order
ResultsComplete ==
    /\ Len(task_results) = Len(response.tasks)
    /\ executed = [i \in 1..Len(response.tasks) |-> i]
    /\ \A i \in DOMAIN response.tasks :
          task_results[i].type = ResultEntry(response.tasks[i], Raised("")).type

C5_TaskFaultsNeverRaised == ended_by # "task_exception"

\* the task types execute_claude_code_task has a branch for
RecognizedTypes == {"claude_code_prompt", "file_creation", "command"}

\* the next task of the pass has no type or a type that is not recognized
NextTaskUnrecognized ==
    /\ pc = "exec"
    /\ TaskLeft(task_results, response.tasks)
    /\ response.tasks[Len(task_results) + 1].type \notin RecognizedTypes

\* C6: executing a task whose type is not recognized, or that has no type,
\* appends a result with success false and an error naming the unknown type,
\* raises nothing and leaves the working directory as it was.
C6_UnknownTypeFailsCleanly ==
    [][NextTaskUnrecognized =>
          LET task == response.tasks[Len(task_results) + 1]
              name == IF task.type = Absent THEN "unknown" ELSE task.type
          IN  /\ pc' = "exec"
              /\ ended_by' = ended_by
              /\ cwd_files' = cwd_files
              /\ Len(task_results') = Len(task_results) + 1
              /\ task_results'[Len(task_results')].success = FALSE
              /\ task_results'[Len(task_results')].error = "Unknown task type: " \o name
              /\ SubSeq(task_results', 1, Len(task_results)) = task_results]_vars

\* a task without a type and a task of an unknown type have both been run
C6_Witness ==
    /\ pc = "exec"
    /\ Len(task_results) = 2
    /\ task_results[1].error = "Unknown task type: unknown"
    /\ task_results[2].error = "Unknown task type: bogus"

\* the six actions of the checkpoint menu
MenuActions == {"c", "r", "m", "v", "o", "s"}

\* C7: on operator input that is none of the six menu actions the loop does
\* not advance: it stays at the checkpoint and issues no oracle request.
C7_NoAdvanceOnUnrecognizedInput ==
    [][(pc = "checkpoint" /\ pc' # "interrupted" /\ choice' \notin MenuActions)
          => (pc' = "checkpoint" /\ api_calls' = api_calls)]_vars

\* C8 as claimed: a response with checkpoint=true is paused on before the
\* session ends, whatever its phase.
C8_CheckpointPausesWhateverThePhase ==
    (pc = "after_loop" /\ response.checkpoint) => prompted

\* C8 as amended: a response with checkpoint=true whose phase is neither
\* complete nor error is paused on once its tasks have run, before any
\* further oracle request; a response whose phase is complete or error,
\* or that the iteration cap discards, ends the loop without a pause.
C8_CheckpointPausesNonTerminalOnly ==
    [][/\ (response.checkpoint /\ api_calls' # api_calls) => prompted
       /\ (response.checkpoint /\ pc = "exec" /\ pc' # "exec")
             => pc' \in {"checkpoint", "task_wait", "fatal"}
       /\ (pc = "loop_head"
             /\ (response.phase \in {"complete", "error"} \/ iteration >= max_iterations))
             => (pc' = "after_loop" /\ ~prompted')
       /\ prompted' => pc' = "checkpoint" \/ ended_by' = "stop"]_vars

\* the fallback response, which has no task, is paused on
C8_Witness ==
    /\ pc = "checkpoint"
    /\ prompted
    /\ response.phase = "planning"
    /\ response.tasks = <<>>

\* the first n exchanges with the oracle
Exchanges(n) ==
    [k \in 1..(2 * n) |->
        IF k % 2 = 1 THEN UserMessage((k + 1) \div 2) ELSE AssistantMessage(k \div 2)]

\* C9: after stop at the checkpoint of pass n no oracle request is issued
\* and the persisted conversation is exactly the n exchanges made before:
\* 2n messages, nothing added after the stop.
C9_StopSavesConversationSoFar ==
    ended_by = "stop" =>
        /\ api_calls = iteration
        /\ pc \in {"after_loop", "done"}
        /\ conversation_history = Exchanges(iteration)
        /\ pc = "done" => (summary.saved /\ summary.conversation = Exchanges(iteration))

\* stop at the checkpoint of pass 3: six messages are saved
C9_Witness ==
    /\ pc = "done"
    /\ ended_by = "stop"
    /\ iteration = 3
    /\ summary.saved
    /\ Len(summary.conversation) = 6

\* C10: an interrupt at a suspension point of a started session still gets
\* the session summary persisted before the process exits.
C10_InterruptStillSavesSummary == ended_by = "interrupt" => summary.saved

\* the ways a started loop ends that the loop itself handles
LoopEnds == {"complete", "error", "stop", "cap"}

\* C11: whenever the loop ends by phase complete, phase error, operator stop
\* or the iteration cap, control is at the point after the loop; the only
\* step from there writes the summary with the whole conversation; and the
\* session has not returned from such an end without the summary on disk.
C11_LoopEndsSaveSummary ==
    /\ [][(ended_by' \in LoopEnds /\ ended_by' # ended_by) => pc' = "after_loop"]_vars
    /\ [][pc = "after_loop" =>
            /\ pc' = "done"
            /\ summary'.saved
            /\ summary'.conversation = conversation_history
            /\ conversation_history' = conversation_history]_vars
    /\ []((pc = "done" /\ ended_by \in LoopEnds) =>
            (summary.saved /\ summary.conversation = conversation_history))

C11_Witness ==
    /\ pc = "done"
    /\ ended_by = "cap"
    /\ summary.saved
    /\ Len(summary.conversation) = 2 * (max_iterations + 1)

\* C12: a transport failure of an oracle call gives the response phase
\* error, no tasks and the failure message in the summary; the call is not
\* repeated, and the loop is left at its next check with no further oracle
\* request and no task run.
C12_TransportFailureEndsLoop ==
    /\ [](last_reply = "fail" =>
            /\ response.phase = "error"
            /\ response.tasks = <<>>
            /\ response.summary = "API error: connection refused"
            /\ pc \in {"loop_head", "after_loop"})
    /\ [][(last_reply = "fail" \/ last_reply' = "fail") =>
            /\ api_calls' = api_calls
            /\ cwd_files' = cwd_files
            /\ pc' \in {"loop_head", "after_loop", "done"}
            /\ pc = "loop_head" => pc' = "after_loop"]_vars

C12_Witness ==
    /\ pc = "after_loop"
    /\ last_reply = "fail"
    /\ ended_by = "error"
    /\ api_calls = 3

\* C13: a reply text that cannot be parsed gives the response phase
\* planning, no tasks, checkpoint true and a summary that is not empty.
C13_FallbackHasSummary ==
    (pc = "loop_head" /\ last_reply = "garbage") =>
        /\ response.phase = "planning"
        /\ response.tasks = <<>>
        /\ response.checkpoint
        /\ response.summary # ""

\* the places of a text where a well-formed object starts and ends
Payloads(text) ==
    {span \in (1..Len(text)) \X (1..Len(text)) :
        /\ span[1] < span[2]
        /\ text[span[1]] = "{"
        /\ text[span[2]] = "}"
        /\ json_loads_ok(SubSeq(text, span[1], span[2]))}

\* C14: a reply text that holds exactly one well-formed object, whatever
\* surrounds it, is parsed to that object and not replaced by the fallback.
C14_WrappedPayloadIsParsed ==
    (pc = "parsed" /\ Cardinality(Payloads(response_text)) = 1) =>
        \A span \in Payloads(response_text) :
            /\ parsed.kind = "parsed"
            /\ parsed.keys = Keys(SubSeq(response_text, span[1], span[2]))

\* C15: the warning that the iteration bound was exceeded is logged exactly
\* for the sessions whose loop ended because the cap was hit.
C15_WarningOnlyForCap ==
    (pc = "done" /\ ended_by \in LoopEnds) => (warned <=> ended_by = "cap")

\* C16: with a missing or empty task description the session returns with
\* the error reported: no oracle request, no task run, no pass started, the
\* conversation empty.
C16_NoInputNoLoop ==
    /\ [][(pc = "start" /\ initial_input \in {None, ""}) =>
            /\ pc' \in {"start", "done"}
            /\ initial_input = "" => (pc' = "done" /\ ended_by' = "no_input")
            /\ api_calls' = 0
            /\ iteration' = 0
            /\ executed' = <<>>
            /\ cwd_files' = {}
            /\ conversation_history' = <<>>]_vars
    /\ [](ended_by = "no_input" =>
            /\ pc = "done"
            /\ api_calls = 0
            /\ iteration = 0
            /\ cwd_files = {}
            /\ conversation_history = <<>>)

C16_Witness ==
    /\ pc = "done"
    /\ ended_by = "no_input"
    /\ initial_input = ""
    /\ api_calls = 0

\* C17: when the operator chooses modify or add-input, the pass sends one
\* request, the replacement message listing this pass's results, and no
\* default feedback; the reply to it is the response the next pass starts
\* from.
C17_ModifySendsOnlyReplacement ==
    /\ [][(pc = "checkpoint" /\ choice' \in {"m", "v"}) =>
            /\ api_calls = iteration
            /\ api_calls' = api_calls + 1
            /\ pc' = "send"
            /\ sent'.kind = (IF choice' = "m" THEN "modify" ELSE "voice")
            /\ sent'.listed = Len(task_results)]_vars
    /\ [][(pc = "oracle_wait" /\ in_flight \in {"modify", "voice"}) =>
            /\ api_calls' = api_calls
            /\ pc' \in {"loop_head", "interrupted"}]_vars
    /\ [][pc = "loop_head" =>
            /\ api_calls' = api_calls
            /\ api_calls = iteration + 1
            /\ pc' = "exec" => (response' = response /\ iteration' = iteration + 1)]_vars

C17_Witness ==
    /\ pc = "send"
    /\ choice = "m"
    /\ sent.kind = "modify"
    /\ sent.listed = 2
    /\ iteration = 2
    /\ api_calls = 3

\* s is a prefix of t
IsPrefix(s, t) == Len(s) <= Len(t) /\ SubSeq(t, 1, Len(s)) = s

\* C18: every step leaves the conversation as it was or extends it at the
\* end; no message is removed, moved or changed.
C18_ConversationAppendOnly ==
    [][IsPrefix(conversation_history, conversation_history')]_vars

C18_Witness ==
    /\ pc = "loop_head"
    /\ Len(conversation_history) = 6
    /\ conversation_history = Exchanges(3)

\* C19 as stated: after every oracle call has returned, whatever its
\* outcome, the conversation ends with the call's message and its reply.
C19_EveryCallRecorded ==
    pc = "loop_head" =>
        /\ Len(conversation_history) >= 2
        /\ conversation_history[Len(conversation_history) - 1] = UserMessage(api_calls)
        /\ conversation_history[Len(conversation_history)] = AssistantMessage(api_calls)

\* C19: after an oracle call that got a reply text has returned, the
\* conversation ends with the call's message followed by its reply; after a
\* call that failed at the transport level the conversation is what it was
\* before the call, the exchanges of the earlier calls.
C19_AnsweredCallsRecorded ==
    pc = "loop_head" =>
        IF last_reply = "fail"
        THEN conversation_history = Exchanges(api_calls - 1)
        ELSE /\ conversation_history = Exchanges(api_calls)
             /\ conversation_history[Len(conversation_history) - 1] = UserMessage(api_calls)
             /\ conversation_history[Len(conversation_history)] = AssistantMessage(api_calls)

C19_Witness ==
    /\ pc = "loop_head"
    /\ last_reply = "garbage"
    /\ api_calls = 2
    /\ Len(conversation_history) = 4

\* the phases a PlanResponse may carry
KnownPhases == {"planning", "execution", "verification", "complete", "error", "stopped"}

\* C20: while a pass works on a response (running its tasks or pausing at
\* its checkpoint) the phase of that response is one of the known phases.
C20_OnlyKnownPhasesAccepted ==
    pc \in {"exec", "task_wait", "checkpoint"} => response.phase \in KnownPhases

\* C21: the change-model choice leaves the conversation and the iteration
\* counter as they are, and the feedback built right after it reports the
\* same response and the same results as before; the model only changes to
\* the entry chosen, and an empty or invalid choice leaves it as it was.
C21_ChangeModelFrame ==
    [][(pc = "checkpoint" /\ choice' = "o") =>
        /\ conversation_history' = conversation_history
        /\ iteration' = iteration
        /\ sent' = Message("feedback", response, task_results)
        /\ model_choice' \in {"", "9"} => current_model' = current_model
        /\ model_choice' = "2" => current_model' = available_models.opus]_vars

C21_Witness ==
    /\ pc = "send"
    /\ choice = "o"
    /\ model_choice = "9"
    /\ current_model = available_models.opus

\* C22: the default feedback message reports the phase of the response the
\* pass worked on, the number of successful entries of this pass's results
\* over the number of its tasks: 0/0 without tasks, 1/1 for one successful
\* file creation.
C22_FeedbackReportsPhaseAndRatio ==
    [][(pc' = "send" /\ sent'.kind = "feedback") =>
        /\ sent'.phase = response.phase
        /\ sent'.succeeded =
              Cardinality({i \in 1..Len(task_results) : task_results[i].success})
        /\ sent'.total = Len(response.tasks)
        /\ sent'.total = Len(task_results)
        /\ response.tasks = <<>> => (sent'.succeeded = 0 /\ sent'.total = 0)
        /\ (/\ Len(task_results) = 1
            /\ task_results[1].type = "file_creation"
            /\ task_results[1].success) => (sent'.succeeded = 1 /\ sent'.total = 1)]_vars

C22_Witness ==
    /\ pc = "send"
    /\ sent.kind = "feedback"
    /\ sent.phase = "execution"
    /\ sent.succeeded = 1
    /\ sent.total = 2

\* a shell command that exits with code 1 and writes nothing
QuietFailure == [kind |-> "exit", returncode |-> 1, stdout |-> "", stderr |-> ""]

\* the call that is looked at runs a shell command
RunsCommand == exec_task.type = "command" /\ exec_task.has_content

\* C23 as stated: a command that exits non-zero without output gives
\* success false, output "" and the empty text as error.
C23_QuietFailureHasEmptyError ==
    (pc # "call_executor" /\ RunsCommand /\ exec_env.proc = QuietFailure) =>
        /\ exec_result.success = FALSE
        /\ exec_result.output = ""
        /\ exec_result.error = ""

\* C23: for a shell command, success is true exactly when the process exits
\* with code 0; a command that exits non-zero without output gives success
\* false, output "" and no error (None); the result is returned, not raised,
\* and the loop records it and goes on.
C23_QuietFailureHasNoError ==
    (pc # "call_executor" /\ RunsCommand) =>
        /\ exec_result.success <=>
              (exec_env.proc.kind = "exit" /\ exec_env.proc.returncode = 0)
        /\ ~exec_result.raised
        /\ exec_env.proc = QuietFailure =>
              /\ exec_result.success = FALSE
              /\ exec_result.output = ""
              /\ exec_result.error = None
        /\ pc # "executor_returned" =>
              /\ pc = "exec"
              /\ Len(task_results) = 1
              /\ task_results[1].success = exec_result.success
              /\ task_results[1].error = exec_result.error

C23_Witness ==
    /\ pc = "exec"
    /\ RunsCommand
    /\ exec_env.proc = QuietFailure
    /\ task_results[1].success = FALSE
    /\ task_results[1].error = None

\* C24: every result the executor returns has an output of at most 1000
\* characters and an error of at most 500 characters.
C24_OutcomeLengthsBounded ==
    (pc # "call_executor" /\ ~exec_result.raised) =>
        /\ Len(exec_result.output) <= 1000
        /\ exec_result.error # None => Len(exec_result.error) <= 500

\* C25: when a pass is followed by another pass, the delay has run between
\* the oracle call that ended the first and the start of the second.
C25_DelayBeforeEveryNextPass ==
    (pc = "loop_head" /\ iteration >= 1 /\ LoopCondition(iteration)) => delayed

\* C26: when the loop ends at the iteration cap, the response to the request
\* of the last pass is dropped: the loop is left without running a task of
\* it, without showing the menu and without a request, and the session ends
\* as capped, whatever the phase of that response.
C26_CapDiscardsLastResponse ==
    /\ [][(pc = "loop_head" /\ iteration = max_iterations) =>
            /\ pc' = "after_loop"
            /\ ended_by' = "cap"
            /\ executed' = <<>>
            /\ task_results' = <<>>
            /\ ~prompted'
            /\ cwd_files' = cwd_files
            /\ api_calls' = api_calls]_vars
    /\ [](ended_by = "cap" =>
            /\ pc \in {"after_loop", "done"}
            /\ iteration = max_iterations
            /\ executed = <<>>
            /\ ~prompted)

C26_Witness ==
    /\ pc = "after_loop"
    /\ ended_by = "cap"
    /\ response.phase = "complete"
    /\ response.tasks # <<>>
    /\ response.checkpoint

\* C27: while a pass is at work the number of oracle requests issued equals
\* the iteration counter; once the pass has issued its request the number is
\* one more, until the next pass starts; a session never issues more than
\* max_iterations + 1 requests.
C27_OneRequestPerPass ==
    /\ pc \in {"exec", "task_wait", "checkpoint"} => api_calls = iteration
    /\ pc \in {"send", "oracle_wait", "loop_head"} => api_calls = iteration + 1
    /\ api_calls <= max_iterations + 1

C27_Witness ==
    /\ pc = "done"
    /\ ended_by = "cap"
    /\ api_calls = max_iterations + 1
    /\ iteration = max_iterations

C29_TasksRunBeforeCheckpoint ==
    /\ [](pc = "checkpoint" =>
            /\ response.checkpoint
            /\ ~PhaseEndsLoop(response.phase)
            /\ Len(task_results) = Len(response.tasks)
            /\ Len(executed) = Len(response.tasks))
    /\ [][pc = "checkpoint" =>
            /\ cwd_files' = cwd_files
            /\ choice' = "s" => (/\ pc' = "after_loop"
                                 /\ api_calls' = api_calls
                                 /\ task_results' = task_results)
            /\ pc' = "send" => sent'.listed = Len(response.tasks)]_vars
    /\ [][pc = "after_loop" => cwd_files' = cwd_files]_vars

C29_Witness ==
    /\ pc = "after_loop"
    /\ ended_by = "stop"
    /\ Len(task_results) = 2
    /\ cwd_files # {}

\* C30: a response whose phase is complete or error has none of its tasks
\* executed: the pass that reads it leaves the loop before the for loop.
C30_TerminalPhaseTasksNotRun ==
    /\ [][(pc = "loop_head" /\ response.phase \in {"complete", "error"}) =>
            /\ pc' = "after_loop"
            /\ executed' = <<>>
            /\ cwd_files' = cwd_files]_vars
    /\ []((pc \in {"exec", "task_wait", "checkpoint"} \/ executed # <<>>) =>
            response.phase \notin {"complete", "error"})

C30_Witness ==
    /\ pc = "after_loop"
    /\ ended_by = "complete"
    /\ response.tasks # <<>>
    /\ executed = <<>>
    /\ iteration = 2
    /\ cwd_files # {}


====
